---- MODULE Spec2Model ----
(***************************************************************************)
(* Model of the weather popup: the forecast client (weather_fetcher.py)    *)
(* and the presenter / command line (get_current_weather.py).              *)
(*                                                                         *)
(* Conventions.                                                            *)
(*  - A Python str is a sequence of one-character strings; a text that is  *)
(*    only ever printed is a sequence of string tokens.                    *)
(*  - A Python float is an integer number of tenths (3.4 is 34); every     *)
(*    numeral the model feeds to float() has at most one fractional digit  *)
(*    and is not a negative zero, so parsing, ".0f", ".1f" and repr are    *)
(*    exact on the values that occur.                                      *)
(*  - A decoded JSON value is a record of one fixed shape per position, so *)
(*    that values of different JSON types stay comparable.                 *)
(***************************************************************************)
EXTENDS Integers, Sequences, FiniteSets, TLC

VARIABLES
    pc,          \* position of one run of main(): start, fetch, extract, dispatch, done
    fmt,         \* args.format
    nreq,        \* HTTP requests issued by this run (session.get calls)
    forecast,    \* what get_forecast returned: [some, body]
    conditions,  \* what get_current_conditions returned: [some, c]
    stdout,      \* lines printed to standard output, in order
    stderr,      \* lines printed to standard error, in order
    exitCode,    \* process exit status, -1 while running
    uncaught,    \* name of the exception that ended the run uncaught, or "none"
    raisedBy,    \* the function that raised it, or "none"
    resp,        \* outcome of the HTTP GET of this run
    search,      \* one call of WeatherFetcher.search_location
    fcall,       \* one direct call of format_simple / format_minimal / format_detailed
    tcall        \* one call of WeatherFetcher.format_forecast_simple

vars == <<pc, fmt, nreq, forecast, conditions, stdout, stderr, exitCode, uncaught,
          raisedBy, resp, search, fcall, tcall>>

cliVars == <<pc, fmt, nreq, forecast, conditions, stdout, stderr, exitCode, uncaught,
             raisedBy, resp>>

(***************************************************************************)
(* Bounds of the model.                                                    *)
(***************************************************************************)
MaxTimes == 3      \* longest time sequence of a fetched forecast (CLI run)
MaxList == 3       \* longest descriptor list of a location search response
MaxChunks == 3     \* longest weather label, in chunks, given to format_minimal
MaxTemp == 26      \* largest |temperature| given to format_minimal, in tenths
MaxTable == 4      \* longest time sequence given to format_forecast_simple
MaxHours == 5      \* largest `hours` given to format_forecast_simple

(***************************************************************************)
(* Strings.                                                                *)
(***************************************************************************)
sVahelduv == <<"V", "a", "h", "e", "l", "d", "u", "v">>
sPilvisus == <<"p", "i", "l", "v", "i", "s", "u", "s">>
sPilv == <<"p", "i", "l", "v">>
sVahelDot == <<"V", "a", "h", "e", "l", ".">>
sIsus == <<"i", "s", "u", "s">>
sSelge == <<"S", "e", "l", "g", "e">>
sVahelduvPilvisus == sVahelduv \o <<" ">> \o sPilvisus

DigitChars == <<"0", "1", "2", "3", "4", "5", "6", "7", "8", "9">>

IsDigit(ch) == \E d \in 1..10 : DigitChars[d] = ch

DigitVal(ch) == (CHOOSE d \in 1..10 : DigitChars[d] = ch) - 1

Abs(n) == IF n < 0 THEN -n ELSE n

RECURSIVE Digits(_)
\* decimal digits of a natural number
Digits(n) == IF n < 10 THEN <<DigitChars[n + 1]>>
             ELSE Digits(n \div 10) \o <<DigitChars[(n % 10) + 1]>>

RECURSIVE DigitsValue(_)
\* value of a non-empty string of digits
DigitsValue(s) == IF Len(s) = 1 THEN DigitVal(s[1])
                  ELSE 10 * DigitsValue(SubSeq(s, 1, Len(s) - 1)) + DigitVal(s[Len(s)])

AllDigits(s) == \A i \in 1..Len(s) : IsDigit(s[i])

(***************************************************************************)
(* Python floats, in tenths.                                               *)
(***************************************************************************)
Unsigned(s) == IF Len(s) > 0 /\ s[1] \in {"-", "+"} THEN Tail(s) ELSE s

Sign(s) == IF Len(s) > 0 /\ s[1] = "-" THEN -1 ELSE 1

NatOf(s) == IF Len(s) = 0 THEN 0 ELSE DigitsValue(s)

\* float(s) of a str: an optional sign, then digits with an optional point.
\* [ok |-> FALSE] is Python's ValueError.  Numerals with more than one
\* fractional digit are outside the model's tenths and never occur.
ParseFloat(s) ==
    LET u == Unsigned(s)
        dots == {i \in 1..Len(u) : u[i] = "."}
    IN  IF dots = {}
        THEN IF Len(u) > 0 /\ AllDigits(u)
             THEN [ok |-> TRUE, val |-> Sign(s) * 10 * DigitsValue(u)]
             ELSE [ok |-> FALSE, val |-> 0]
        ELSE IF Cardinality(dots) > 1
        THEN [ok |-> FALSE, val |-> 0]
        ELSE LET d == CHOOSE i \in dots : TRUE
                 ip == SubSeq(u, 1, d - 1)
                 fp == SubSeq(u, d + 1, Len(u))
             IN  IF AllDigits(ip) /\ AllDigits(fp) /\ Len(ip) + Len(fp) > 0 /\ Len(fp) <= 1
                 THEN [ok |-> TRUE, val |-> Sign(s) * (10 * NatOf(ip) + NatOf(fp))]
                 ELSE [ok |-> FALSE, val |-> 0]

\* truncation instead of rounding
Truncate(m) == m \div 10

\* the integer Python's ".0f" prints for |t| tenths: round half to even
RoundHalfEven(m) ==
    LET q == m \div 10
        r == m % 10
    IN  IF r < 5 THEN q
        ELSE IF r > 5 THEN q + 1
        ELSE IF q % 2 = 0 THEN q ELSE q + 1

\* f"{t:.0f}"; the sign of a negative value is kept when it rounds to zero
Fmt0(t) == (IF t < 0 THEN <<"-">> ELSE <<>>) \o Digits(RoundHalfEven(Abs(t)))

\* f"{t:.1f}", and str(t) / repr(t) of a float with one fractional digit
Fmt1(t) == (IF t < 0 THEN <<"-">> ELSE <<>>)
           \o Digits(Abs(t) \div 10) \o <<".">> \o Digits(Abs(t) % 10)

(***************************************************************************)
(* Decoded JSON scalars: a str, a number (tenths) or null.                 *)
(***************************************************************************)
JStr(s) == [k |-> "str", s |-> s, n |-> 0]

JNum(n) == [k |-> "num", s |-> <<>>, n |-> n]

JNull == [k |-> "null", s |-> <<>>, n |-> 0]

\* float(v): [exc, val]
PyFloat(v) ==
    IF v.k = "num" THEN [exc |-> "none", val |-> v.n]
    ELSE IF v.k = "null" THEN [exc |-> "TypeError", val |-> 0]
    ELSE LET p == ParseFloat(v.s)
         IN  IF p.ok THEN [exc |-> "none", val |-> p.val]
             ELSE [exc |-> "ValueError", val |-> 0]

\* str(v), as an f-string field prints it
PyStr(v) ==
    IF v.k = "str" THEN v.s
    ELSE IF v.k = "num" THEN Fmt1(v.n)
    ELSE <<"N", "o", "n", "e">>

(***************************************************************************)
(* The decoded forecast document.  Each level of the path                  *)
(* forecast.tabular.time is the kind of JSON value found there ("absent":  *)
(* the key is missing); a level below a value that is not a non-empty      *)
(* object is "absent".                                                     *)
(***************************************************************************)
\* bool(x) of a decoded JSON value of this kind
Truthy(kind) == kind \in {"num", "str", "list", "dict"}

\* parent[key] for a str key: the exception it raises, or "none"
KeyLookup(parent, child) ==
    IF parent \in {"dict", "emptydict"}
    THEN IF child = "absent" THEN "KeyError" ELSE "none"
    ELSE "TypeError"

\* entry[name]['@attributes'][key]: the exception it raises, or "none"
FieldExc(f) ==
    CASE f.st = "ok" -> "none"
      [] f.st = "nokey" -> "KeyError"
      [] f.st = "notdict" -> "TypeError"
      [] f.st = "noattrs" -> "KeyError"
      [] f.st = "attrs_notdict" -> "TypeError"
      [] f.st = "noval" -> "KeyError"

\* entry[name] when the entry itself may not be an object
EntryFieldExc(e, f) == IF e.kind = "dict" THEN FieldExc(f) ELSE "TypeError"

RECURSIVE FirstExc(_)
\* the first exception of a sequence of evaluations, in program order
FirstExc(es) == IF es = <<>> THEN "none"
                ELSE IF es[1] # "none" THEN es[1]
                ELSE FirstExc(Tail(es))

Field(st, v) == [st |-> st, v |-> v]

OkField(v) == Field("ok", v)

Opt(has, v) == [has |-> has, v |-> v]

(***************************************************************************)
(* WeatherFetcher.get_forecast: one GET, then the decoded body or None.    *)
(***************************************************************************)
\* the exception the try block raises for an outcome of the GET, or "none".
\* response.json() of an undecodable body raises requests' JSONDecodeError
\* (a RequestException) or a plain ValueError, by the library's version.
TryExc(o) ==
    CASE o.kind = "transport" -> "RequestException"
      [] o.kind = "http_error" -> "RequestException"
      [] o.kind = "bad_json" -> IF o.jsonErrIsRequestException
                                THEN "RequestException" ELSE "ValueError"
      [] o.kind = "ok" -> "none"

\* the name `response` is bound once session.get has returned
ResponseBound(o) == o.kind # "transport"

\* bool(response) is response.ok
ResponseOk(o) == o.status < 400

\* a client that sends the request again when it failed
SessionGetRetry(n, o) == IF o.kind \in {"transport", "http_error"} THEN n + 2 ELSE n + 1

\* session.get is called once
SessionGet(n, o) == n + 1

NoBody == [top |-> "null", forecast |-> "absent", tabular |-> "absent",
           time |-> "absent", entries |-> <<>>, loc |-> Opt(FALSE, JNull)]

\* [exc, some, body, out]: the exception that leaves get_forecast ("none" when
\* it returns), the value returned, and what it printed to standard output
GetForecast(o) ==
    LET e == TryExc(o)
    IN  IF e = "none"
        THEN [exc |-> "none", some |-> TRUE, body |-> o.body, out |-> <<>>]
        ELSE IF e # "RequestException"
        THEN [exc |-> e, some |-> FALSE, body |-> NoBody, out |-> <<>>]
        ELSE IF ~ResponseBound(o)
        THEN [exc |-> "UnboundLocalError", some |-> FALSE, body |-> NoBody,
              out |-> <<[kind |-> "diag", fmt |-> "none",
                         text |-> <<"Error fetching forecast: ">>]>>]
        ELSE [exc |-> "none", some |-> FALSE, body |-> NoBody,
              out |-> <<[kind |-> "diag", fmt |-> "none",
                         text |-> <<"Error fetching forecast: ">>],
                        [kind |-> "diag", fmt |-> "none",
                         text |-> <<"Response status: ">>
                                  \o (IF ResponseOk(o) THEN Digits(o.status)
                                      ELSE <<"N/A">>)],
                        [kind |-> "diag", fmt |-> "none",
                         text |-> <<"Response text: ">>
                                  \o (IF ResponseOk(o) THEN <<"<body>">>
                                      ELSE <<"N/A">>)]>>]

(***************************************************************************)
(* get_current_conditions, after its call of get_forecast.                 *)
(***************************************************************************)
NoCond == [temperature |-> 0, weather |-> JNull, weather_en |-> JNull,
           wind_speed |-> 0, wind_direction |-> JNull, precipitation |-> 0,
           forecast_time |-> JNull, location |-> JNull]

\* an except clause that leaves KeyError out
CaughtNoKeyError == {"IndexError", "TypeError"}

\* the exception classes of the except clause
Caught == {"KeyError", "IndexError", "TypeError"}

\* taking the last entry instead of the first
CurrentEntryLast(times) == times[Len(times)]

\* current = times[0]
CurrentEntry(times) == times[1]

\* the lookups of lines 29-42, in order, for a document whose time is a list
LookupExc(e) ==
    FirstExc(<<EntryFieldExc(e, e.temperature), EntryFieldExc(e, e.phenomen),
               EntryFieldExc(e, e.windSpeed), EntryFieldExc(e, e.windDirection),
               EntryFieldExc(e, e.precipitation), EntryFieldExc(e, e.from)>>)

\* the dict display of lines 44-53: its float() calls in order
BuildExc(e) ==
    FirstExc(<<PyFloat(e.temperature.v).exc, PyFloat(e.windSpeed.v).exc,
               PyFloat(e.precipitation.v).exc>>)

BuildCond(e, body) ==
    [temperature |-> PyFloat(e.temperature.v).val,
     weather |-> e.phenomen.v,
     weather_en |-> IF e.en.has THEN e.en.v ELSE JStr(<<>>),
     wind_speed |-> PyFloat(e.windSpeed.v).val,
     wind_direction |-> e.windDirection.v,
     precipitation |-> PyFloat(e.precipitation.v).val,
     forecast_time |-> e.from.v,
     location |-> IF body.loc.has THEN body.loc.v
                  ELSE JStr(<<"U", "n", "k", "n", "o", "w", "n">>)]

\* the try block: [exc, some, c] before the except clause is applied
TryExtract(body) ==
    LET path == FirstExc(<<KeyLookup(body.top, body.forecast),
                           KeyLookup(body.forecast, body.tabular),
                           KeyLookup(body.tabular, body.time)>>)
        raise(x) == [exc |-> x, some |-> FALSE, c |-> NoCond]
    IN  IF path # "none" THEN raise(path)
        ELSE IF ~Truthy(body.time) THEN raise("none")           \* not times
        ELSE IF body.time = "num" THEN raise("TypeError")        \* len(times)
        ELSE IF body.time = "dict" THEN raise("KeyError")        \* times[0]
        ELSE IF body.time = "str" THEN raise("TypeError")        \* 'x'['temperature']
        ELSE LET e == CurrentEntry(body.entries)
             IN  IF LookupExc(e) # "none" THEN raise(LookupExc(e))
                 ELSE IF BuildExc(e) # "none" THEN raise(BuildExc(e))
                 ELSE [exc |-> "none", some |-> TRUE, c |-> BuildCond(e, body)]

\* [exc, some, c, err]: the exception that leaves get_current_conditions, the
\* value returned, and what it printed to standard error
Extract(fc) ==
    IF ~fc.some \/ ~Truthy(fc.body.top)
    THEN [exc |-> "none", some |-> FALSE, c |-> NoCond, err |-> <<>>]
    ELSE LET r == TryExtract(fc.body)
         IN  IF r.exc \in Caught
             THEN [exc |-> "none", some |-> FALSE, c |-> NoCond,
                   err |-> <<<<"Error parsing weather data: ", r.exc>>>>]
             ELSE [exc |-> r.exc, some |-> r.some, c |-> r.c, err |-> <<>>]

(***************************************************************************)
(* The formatters.  Each returns [exc, text]; the argument is [some, c].     *)
(***************************************************************************)
RECURSIVE StrReplace(_, _, _)
\* s.replace(old, new): the occurrences of old found scanning left to right
StrReplace(s, old, new) ==
    IF Len(s) < Len(old) THEN s
    ELSE IF SubSeq(s, 1, Len(old)) = old
    THEN new \o StrReplace(SubSeq(s, Len(old) + 1, Len(s)), old, new)
    ELSE <<s[1]>> \o StrReplace(Tail(s), old, new)

\* the degree sign and the bullet of the format strings (the module is ASCII)
cDeg == "<deg>"

cBullet == "<bullet>"

sUnavailable == <<"Weather data unavailable">>

sNA == <<"N/A">>

FormatSimple(cond) ==
    IF ~cond.some THEN [exc |-> "none", text |-> sUnavailable]
    ELSE LET c == cond.c
         IN  [exc |-> "none",
              text |-> Fmt1(c.temperature) \o <<cDeg, "C ", cBullet, " ">> \o PyStr(c.weather)
                       \o <<" ", cBullet, " Tuul ">> \o Fmt1(c.wind_speed) \o <<" m/s">>]

\* weather.replace('pilvisus', 'pilv').replace('Vahelduv', 'Vahel.')
WeatherShort(weather) ==
    StrReplace(StrReplace(weather, sPilvisus, sPilv), sVahelduv, sVahelDot)

\* format_minimal with the placeholder of the other formatters
FormatMinimalUnavailable(cond) ==
    IF ~cond.some THEN [exc |-> "none", text |-> sUnavailable]
    ELSE [exc |-> "none", text |-> <<>>]

FormatMinimal(cond) ==
    IF ~cond.some THEN [exc |-> "none", text |-> sNA]
    ELSE LET c == cond.c
         IN  IF c.weather.k # "str"
             THEN [exc |-> "AttributeError", text |-> <<>>]
             ELSE [exc |-> "none",
                   text |-> Fmt0(c.temperature) \o <<cDeg, " ">>
                            \o WeatherShort(c.weather.s)]

FormatDetailed(cond) ==
    IF ~cond.some THEN [exc |-> "none", text |-> sUnavailable]
    ELSE LET c == cond.c
         IN  [exc |-> "none",
              text |-> <<"Location: ">> \o PyStr(c.location)
                       \o <<"\nTemperature: ">> \o Fmt1(c.temperature) \o <<cDeg, "C">>
                       \o <<"\nConditions: ">> \o PyStr(c.weather)
                       \o <<" (">> \o PyStr(c.weather_en) \o <<")">>
                       \o <<"\nWind: ">> \o Fmt1(c.wind_speed) \o <<" m/s ">>
                       \o PyStr(c.wind_direction)
                       \o <<"\nPrecipitation: ">> \o Fmt1(c.precipitation) \o <<" mm">>
                       \o <<"\nForecast time: ">> \o PyStr(c.forecast_time)]

\* json.dumps of one value of the record
JsonValue(v) ==
    IF v.k = "str" THEN <<"\"">> \o v.s \o <<"\"">>
    ELSE IF v.k = "num" THEN Fmt1(v.n)
    ELSE <<"null">>

\* json.dumps(conditions, ensure_ascii=False, indent=2), as main calls it
JsonDumps(c) ==
    <<"{\n  \"temperature\": ">> \o Fmt1(c.temperature)
    \o <<",\n  \"weather\": ">> \o JsonValue(c.weather)
    \o <<",\n  \"weather_en\": ">> \o JsonValue(c.weather_en)
    \o <<",\n  \"wind_speed\": ">> \o Fmt1(c.wind_speed)
    \o <<",\n  \"wind_direction\": ">> \o JsonValue(c.wind_direction)
    \o <<",\n  \"precipitation\": ">> \o Fmt1(c.precipitation)
    \o <<",\n  \"forecast_time\": ">> \o JsonValue(c.forecast_time)
    \o <<",\n  \"location\": ">> \o JsonValue(c.location)
    \o <<"\n}">>

Formats == {"simple", "minimal", "detailed", "json"}

\* the if / elif chain of main over args.format
FormatFor(f, cond) ==
    CASE f = "simple" -> FormatSimple(cond)
      [] f = "minimal" -> FormatMinimal(cond)
      [] f = "detailed" -> FormatDetailed(cond)
      [] f = "json" -> [exc |-> "none", text |-> JsonDumps(cond.c)]

\* main from its test of conditions on: [exc, out, err, exit]
MainDispatch(f, cond) ==
    IF ~cond.some
    THEN [exc |-> "none", out |-> <<>>,
          err |-> <<<<"Failed to fetch weather data">>>>, exit |-> 1]
    ELSE LET r == FormatFor(f, cond)
         IN  IF r.exc # "none"
             THEN [exc |-> r.exc, out |-> <<>>, err |-> <<>>, exit |-> 1]
             ELSE [exc |-> "none",
                   out |-> <<[kind |-> "result", fmt |-> f, text |-> r.text]>>,
                   err |-> <<>>, exit |-> 0]

(***************************************************************************)
(* The documents the provider may send (inputs of a run).                  *)
(***************************************************************************)
SeqsUpTo(S, n) == UNION {[1..k -> S] : k \in 0..n}

nT34 == <<"3", ".", "4">>

nNeg05 == <<"-", "0", ".", "5">>

n42 == <<"4", ".", "2">>

n0 == <<"0">>

n17 == <<"1", ".", "7">>

sAbc == <<"a", "b", "c">>

sNW == <<"N", "W">>

sToomja == <<"T", "o", "o", "m", "j", "a">>

\* a time entry as the provider sends it: every value a str
E0 == [kind |-> "dict",
       from |-> OkField(JStr(<<"t", "1">>)),
       temperature |-> OkField(JStr(nT34)),
       phenomen |-> OkField(JStr(sVahelduvPilvisus)),
       en |-> Opt(TRUE, JStr(<<"V", "a", "r">>)),
       windSpeed |-> OkField(JStr(n42)),
       windDirection |-> OkField(JStr(sNW)),
       precipitation |-> OkField(JStr(n0))]

E1 == [kind |-> "dict",
       from |-> OkField(JStr(<<"t", "2">>)),
       temperature |-> OkField(JStr(nNeg05)),
       phenomen |-> OkField(JStr(sSelge)),
       en |-> Opt(TRUE, JStr(<<"C", "l", "r">>)),
       windSpeed |-> OkField(JStr(n17)),
       windDirection |-> OkField(JStr(<<"S">>)),
       precipitation |-> OkField(JStr(n17))]

RequiredFields == {"temperature", "phenomen", "windSpeed", "windDirection",
                   "precipitation", "from"}

NumericFields == {"temperature", "windSpeed", "precipitation"}

\* how a required field can be missing; '@attributes'.from sits in the entry itself
Defects(name) == IF name = "from" THEN {"noattrs", "attrs_notdict", "noval"}
                 ELSE {"nokey", "notdict", "noattrs", "attrs_notdict", "noval"}

WithField(e, name, f) == [e EXCEPT ![name] = f]

\* first entries with every required field present and convertible
GoodFirst ==
    {[E0 EXCEPT !.temperature = OkField(t), !.phenomen = OkField(w), !.en = en] :
        t \in {JStr(nT34), JStr(nNeg05), JNum(25)},
        w \in {JStr(sVahelduvPilvisus), JStr(sSelge)},
        en \in {Opt(TRUE, JStr(<<"V", "a", "r">>)), Opt(FALSE, JNull)}}

\* entries lacking the required field `name`; another value may be malformed
MissingOf(name) ==
    LET other == IF name = "temperature" THEN "windSpeed" ELSE "temperature"
    IN  {WithField(b, name, Field(d, JNull)) :
            d \in Defects(name),
            b \in {E0, WithField(E0, other, OkField(JStr(sAbc)))}}

\* first entries lacking a required field or structural element
MissingFirst ==
    UNION {MissingOf(name) : name \in RequiredFields}
    \cup {[E0 EXCEPT !.kind = "str"], [E0 EXCEPT !.kind = "null"]}

\* first entries with every required field present and a value float() rejects
MalformedFirst ==
    {WithField(E0, name, OkField(v)) :
        name \in NumericFields, v \in {JStr(sAbc), JStr(<<>>), JNull}}

\* first entries whose localized label is not a str
OddLabelFirst == {WithField(E0, "phenomen", OkField(JNum(50)))}

FirstEntries == GoodFirst \cup MissingFirst \cup MalformedFirst \cup OddLabelFirst

LaterEntries == {E1, WithField(E0, "temperature", OkField(JStr(sAbc))),
                 [E1 EXCEPT !.kind = "null"]}

Locs == {Opt(FALSE, JNull), Opt(TRUE, JStr(sToomja))}

Body(top, fo, ta, ti, es, loc) ==
    [top |-> top, forecast |-> fo, tabular |-> ta, time |-> ti, entries |-> es,
     loc |-> loc]

\* documents that are no object, or lack a level of forecast.tabular.time,
\* or whose time is no non-empty list
ShallowBodies ==
    {Body(top, "absent", "absent", "absent", <<>>, Opt(FALSE, JNull)) :
        top \in {"null", "zero", "num", "emptystr", "str", "emptylist", "list",
                 "emptydict"}}
    \cup {Body("dict", fo, "absent", "absent", <<>>, loc) :
            fo \in {"absent", "null", "num", "str", "list", "emptydict"}, loc \in Locs}
    \cup {Body("dict", "dict", ta, "absent", <<>>, loc) :
            ta \in {"absent", "null", "num", "str", "list", "emptydict"}, loc \in Locs}
    \cup {Body("dict", "dict", "dict", ti, <<>>, loc) :
            ti \in {"absent", "null", "zero", "num", "str", "emptylist",
                    "emptydict", "dict"}, loc \in Locs}

ListBodies ==
    {Body("dict", "dict", "dict", "list", <<f>> \o rest, loc) :
        f \in FirstEntries, rest \in SeqsUpTo(LaterEntries, MaxTimes - 1), loc \in Locs}

Bodies == ShallowBodies \cup ListBodies

Outcome(kind, status, j, body) ==
    [kind |-> kind, status |-> status, jsonErrIsRequestException |-> j, body |-> body]

NoOutcome == Outcome("none", 0, FALSE, NoBody)

Outcomes ==
    {Outcome("transport", 0, FALSE, NoBody)}
    \cup {Outcome("http_error", st, FALSE, NoBody) : st \in {404, 500}}
    \cup {Outcome("bad_json", 200, j, NoBody) : j \in BOOLEAN}
    \cup {Outcome("ok", 200, FALSE, b) : b \in Bodies}

(***************************************************************************)
(* One run of main().                                                      *)
(***************************************************************************)
NoData == [ty |-> "null", hasData |-> FALSE, dataTy |-> "null", items |-> <<>>]

IdleSearch == [pc |-> "idle", query |-> "", kind |-> "none", data |-> NoData,
               exc |-> "none", ret |-> <<>>, printed |-> <<>>]

IdleFcall == [pc |-> "idle", fn |-> "none", arg |-> [some |-> FALSE, c |-> NoCond],
              exc |-> "none", text |-> <<>>]

NoReport == [kind |-> "none", location |-> <<>>, rows |-> <<>>,
             summary |-> [heading |-> FALSE, shown |-> FALSE, tempLine |-> <<>>,
                          precipLine |-> <<>>, labels |-> {}]]

IdleTcall == [pc |-> "idle",
              doc |-> [falsy |-> TRUE, loc |-> Opt(FALSE, JNull), times |-> <<>>],
              hours |-> 0, report |-> NoReport]

CliInit ==
    /\ pc = "start"
    /\ fmt = "simple"
    /\ nreq = 0
    /\ forecast = [some |-> FALSE, body |-> NoBody]
    /\ conditions = [some |-> FALSE, c |-> NoCond]
    /\ stdout = <<>>
    /\ stderr = <<>>
    /\ exitCode = -1
    /\ uncaught = "none"
    /\ raisedBy = "none"
    /\ resp = NoOutcome

Init ==
    /\ CliInit
    /\ search = IdleSearch
    /\ fcall = IdleFcall
    /\ tcall = IdleTcall

\* the interpreter ends the run on an exception nothing caught
Crash(exc, by) ==
    /\ pc' = "done"
    /\ uncaught' = exc
    /\ raisedBy' = by
    /\ stderr' = Append(stderr, <<"Traceback (most recent call last): ", exc>>)
    /\ exitCode' = 1

\* parser.parse_args(): --format is one of the four choices
ParseArgs ==
    /\ pc = "start"
    /\ \E f \in Formats : fmt' = f
    /\ pc' = "fetch"
    /\ UNCHANGED <<nreq, forecast, conditions, stdout, stderr, exitCode, uncaught,
                   raisedBy, resp, search, fcall, tcall>>

\* get_current_conditions calls fetcher.get_forecast(coordinates=...)
Fetch ==
    /\ pc = "fetch"
    /\ \E o \in Outcomes :
        LET r == GetForecast(o)
        IN  /\ resp' = o
            /\ nreq' = SessionGet(nreq, o)
            /\ stdout' = stdout \o r.out
            /\ forecast' = [some |-> r.some, body |-> r.body]
            /\ IF r.exc = "none"
               THEN /\ pc' = "extract"
                    /\ UNCHANGED <<stderr, exitCode, uncaught, raisedBy>>
               ELSE Crash(r.exc, "get_forecast")
    /\ UNCHANGED <<fmt, conditions, search, fcall, tcall>>

\* the rest of get_current_conditions
ExtractStep ==
    /\ pc = "extract"
    /\ LET r == Extract(forecast)
       IN  /\ conditions' = [some |-> r.some, c |-> r.c]
           /\ IF r.exc = "none"
              THEN /\ pc' = "dispatch"
                   /\ stderr' = stderr \o r.err
                   /\ UNCHANGED <<exitCode, uncaught, raisedBy>>
              ELSE Crash(r.exc, "get_current_conditions")
    /\ UNCHANGED <<fmt, nreq, forecast, stdout, resp, search, fcall, tcall>>

\* main after get_current_conditions returned
Dispatch ==
    /\ pc = "dispatch"
    /\ LET r == MainDispatch(fmt, conditions)
       IN  /\ stdout' = stdout \o r.out
           /\ IF r.exc = "none"
              THEN /\ pc' = "done"
                   /\ stderr' = stderr \o r.err
                   /\ exitCode' = r.exit
                   /\ UNCHANGED <<uncaught, raisedBy>>
              ELSE Crash(r.exc, "format_minimal")
    /\ UNCHANGED <<fmt, nreq, forecast, conditions, resp, search, fcall, tcall>>

Next == ParseArgs \/ Fetch \/ ExtractStep \/ Dispatch

Spec == Init /\ [][Next]_vars

(***************************************************************************)
(* Properties of one run of main() (specification Spec).                   *)
(***************************************************************************)
IsResult(item) == item.kind = "result"

\* the formatted results on standard output
Results == SelectSeq(stdout, IsResult)

\* get_forecast has been called and has returned or raised
Fetched == pc \in {"extract", "dispatch", "done"}

\* get_current_conditions has returned or raised
Extracted == pc = "dispatch" \/ (pc = "done" /\ raisedBy # "get_forecast")

\* the decoded document has the whole path and a non-empty list of entries
HasFirstEntry ==
    /\ resp.kind = "ok"
    /\ resp.body.top = "dict" /\ resp.body.forecast = "dict"
    /\ resp.body.tabular = "dict" /\ resp.body.time = "list"

FirstEntry == resp.body.entries[1]

\* every required field of an entry is there
HasAllFields(e) == e.kind = "dict" /\ \A name \in RequiredFields : e[name].st = "ok"

\* C1: whenever the GET ended in a transport error or a non-success status,
\* get_forecast returned None and raised nothing.
C1_FetchFailureReturnsNone ==
    (Fetched /\ resp.kind \in {"transport", "http_error"})
        => (raisedBy # "get_forecast" /\ ~forecast.some)

\* C2: a finished run of main never ended on an uncaught exception; when the
\* fetch or the extraction failed it wrote an error to standard error, no
\* formatted result, and exited non-zero; otherwise it wrote exactly one
\* result of the selected format and exited with zero.
C2_MainOutcome ==
    pc = "done" =>
        /\ uncaught = "none"
        /\ IF ~conditions.some
           THEN exitCode # 0 /\ stderr # <<>> /\ Results = <<>>
           ELSE exitCode = 0 /\ Len(Results) = 1 /\ Results[1].fmt = fmt

\* the number a well-formed value stands for, in tenths
ExpectedNumber(v) ==
    CASE v = JStr(nT34) -> 34
      [] v = JStr(nNeg05) -> -5
      [] v = JStr(n42) -> 42
      [] v = JStr(n0) -> 0
      [] v = JStr(n17) -> 17
      [] v.k = "num" -> v.n

\* C3: for a well-formed document with a non-empty time sequence the record
\* returned carries exactly the first entry's attributes, the three numeric
\* ones converted to numbers, whatever the later entries are; a first entry
\* without the English label gives an empty weather_en.
C3_FirstEntryProjected ==
    (Extracted /\ HasFirstEntry /\ FirstEntry \in GoodFirst) =>
        /\ raisedBy = "none"
        /\ conditions.some
        /\ conditions.c.temperature = ExpectedNumber(FirstEntry.temperature.v)
        /\ conditions.c.weather = FirstEntry.phenomen.v
        /\ conditions.c.weather_en =
              (IF FirstEntry.en.has THEN FirstEntry.en.v ELSE JStr(<<>>))
        /\ conditions.c.wind_speed = ExpectedNumber(FirstEntry.windSpeed.v)
        /\ conditions.c.wind_direction = FirstEntry.windDirection.v
        /\ conditions.c.precipitation = ExpectedNumber(FirstEntry.precipitation.v)
        /\ conditions.c.forecast_time = FirstEntry.from.v

C3_Witness ==
    /\ pc = "dispatch" /\ HasFirstEntry /\ FirstEntry \in GoodFirst
    /\ Len(resp.body.entries) >= 2
    /\ resp.body.entries[2] = E1
    /\ ~FirstEntry.en.has
    /\ conditions.some
    /\ conditions.c.temperature = -5
    /\ conditions.c.weather_en = JStr(<<>>)

\* C4: for a fetched document that lacks a level of forecast.tabular.time,
\* whose time sequence is empty, or whose first entry lacks a required field
\* or structural element, get_current_conditions returns None and raises
\* nothing.
C4_MissingIsAbsent ==
    (Extracted /\ resp.kind = "ok"
        /\ (~HasFirstEntry \/ ~HasAllFields(FirstEntry)))
        => (raisedBy = "none" /\ ~conditions.some)

C4_Witness ==
    /\ pc = "dispatch" /\ HasFirstEntry
    /\ FirstEntry.precipitation.st = "nokey"
    /\ FirstEntry.temperature.v = JStr(sAbc)
    /\ ~conditions.some
    /\ stderr # <<>>

\* C5: for a document whose first entry has every required field and a
\* temperature, wind speed or precipitation that cannot be converted to a
\* number, get_current_conditions returns None and raises nothing.
C5_MalformedIsAbsent ==
    (Extracted /\ HasFirstEntry /\ HasAllFields(FirstEntry)
        /\ \E name \in NumericFields : PyFloat(FirstEntry[name].v).exc # "none")
        => (raisedBy = "none" /\ ~conditions.some)

\* C8: a run issues exactly one HTTP request whatever its outcome (none
\* before the fetch, one ever after), and a failed fetch or extraction
\* leaves no record and no formatted result.
C8_OneRequest ==
    /\ nreq = (IF Fetched THEN 1 ELSE 0)
    /\ (Fetched /\ resp.kind # "ok") => ~conditions.some
    /\ (pc = "done" /\ (resp.kind # "ok" \/ ~conditions.some \/ uncaught # "none"))
          => (Results = <<>> /\ exitCode # 0)

C8_Witness ==
    /\ pc = "done" /\ resp.kind = "http_error" /\ nreq = 1
    /\ Results = <<>> /\ exitCode = 1

(***************************************************************************)
(* WeatherFetcher.search_location.  The decoded body is [ty, hasData,      *)
(* dataTy, items]: its JSON type, whether an object has the key 'data',    *)
(* the type of data['data'], and the elements of the list (the body        *)
(* itself, or data['data']).  A returned element is a descriptor of the    *)
(* list, or the decoded body itself (self).                                *)
(***************************************************************************)
Descriptors == {"d1", "d2", "d3"}

Elem(d) == [self |-> FALSE, d |-> d]

SelfElem == [self |-> TRUE, d |-> ""]

Data(ty, hasData, dataTy, items) ==
    [ty |-> ty, hasData |-> hasData, dataTy |-> dataTy, items |-> items]

ElemLists == SeqsUpTo({Elem(d) : d \in Descriptors}, MaxList)

SearchBodies ==
    {Data("list", FALSE, "null", l) : l \in ElemLists}
    \cup {Data("dict", TRUE, "list", l) : l \in ElemLists}
    \cup {Data("dict", TRUE, t, <<>>) : t \in {"null", "str", "num", "dict"}}
    \cup {Data("dict", FALSE, "null", <<>>)}
    \cup {Data(t, FALSE, "null", <<>>) : t \in {"num", "str", "bool", "null"}}

\* a normalisation that returns the wrapper itself instead of its list
NormalizeNoUnwrap(data) ==
    IF data.ty = "dict" THEN <<SelfElem>>
    ELSE IF data.ty = "list" THEN data.items
    ELSE <<>>

\* the isinstance chain of lines 49-58
Normalize(data) ==
    IF data.ty = "dict"
    THEN IF data.hasData
         THEN IF data.dataTy = "list" THEN data.items ELSE <<SelfElem>>
         ELSE <<SelfElem>>
    ELSE IF data.ty = "list" THEN data.items
    ELSE <<>>

\* [exc, ret, printed] of search_location for an outcome of its GET
SearchLocation(kind, j, data) ==
    LET e == TryExc([kind |-> kind, jsonErrIsRequestException |-> j])
    IN  IF e = "none"
        THEN [exc |-> "none", ret |-> Normalize(data),
              printed |-> <<"   Raw response type: ", "   Raw response: ">>]
        ELSE IF e = "RequestException"
        THEN [exc |-> "none", ret |-> <<>>, printed |-> <<"Error searching location: ">>]
        ELSE [exc |-> e, ret |-> <<>>, printed |-> <<>>]

\* a caller passes a location name; the GET is sent
SearchCall ==
    /\ search.pc = "idle"
    /\ \E q \in {"Toomja", "Kaiu"} :
        search' = [search EXCEPT !.pc = "sent", !.query = q]
    /\ UNCHANGED <<cliVars, fcall, tcall>>

\* the GET ends and search_location returns or raises
SearchReturn ==
    /\ search.pc = "sent"
    /\ \E o \in {[kind |-> "transport", j |-> FALSE, data |-> NoData],
                 [kind |-> "http_error", j |-> FALSE, data |-> NoData],
                 [kind |-> "bad_json", j |-> FALSE, data |-> NoData],
                 [kind |-> "bad_json", j |-> TRUE, data |-> NoData]}
                \cup {[kind |-> "ok", j |-> FALSE, data |-> b] : b \in SearchBodies} :
        LET r == SearchLocation(o.kind, o.j, o.data)
        IN  search' = [search EXCEPT !.pc = IF r.exc = "none" THEN "returned"
                                             ELSE "raised",
                                     !.kind = o.kind, !.data = o.data,
                                     !.exc = r.exc, !.ret = r.ret,
                                     !.printed = r.printed]
    /\ UNCHANGED <<cliVars, fcall, tcall>>

NextSearch == SearchCall \/ SearchReturn

SpecSearch == Init /\ [][NextSearch]_vars

\* the body was decoded and search_location is over
SearchDecoded == search.pc \in {"returned", "raised"} /\ search.kind = "ok"

\* C7 as stated: a bare list and a {"data": [...]} wrapper each yield a list of
\* length >= 1, a single bare object a list of length 1 holding that object,
\* any other shape an empty list, and no shape an error.
C7_NormalizedAsStated ==
    SearchDecoded =>
        /\ search.pc = "returned"
        /\ (search.data.ty = "list" => Len(search.ret) >= 1)
        /\ (search.data.ty = "dict" /\ search.data.hasData /\ search.data.dataTy = "list")
              => Len(search.ret) >= 1
        /\ (search.data.ty = "dict" /\ ~search.data.hasData)
              => search.ret = <<SelfElem>>
        /\ (search.data.ty \notin {"dict", "list"}) => search.ret = <<>>

\* C7 amended: a bare list and a {"data": [...]} wrapper each yield exactly
\* the list they carry (empty when it is empty), a single bare object (and an
\* object whose 'data' is no list) a list of length 1 holding that object, any
\* other shape an empty list, and no shape an error.
C7_Normalized ==
    SearchDecoded =>
        /\ search.pc = "returned"
        /\ (search.data.ty = "list" => search.ret = search.data.items)
        /\ (search.data.ty = "dict" /\ search.data.hasData /\ search.data.dataTy = "list")
              => search.ret = search.data.items
        /\ (search.data.ty = "dict"
              /\ ~(search.data.hasData /\ search.data.dataTy = "list"))
              => search.ret = <<SelfElem>>
        /\ (search.data.ty \notin {"dict", "list"}) => search.ret = <<>>

C7_Witness ==
    /\ search.pc = "returned" /\ search.kind = "ok"
    /\ search.data.ty = "dict" /\ search.data.hasData /\ search.data.dataTy = "list"
    /\ search.ret = <<Elem("d2"), Elem("d1")>>

(***************************************************************************)
(* The formatters called directly, and main given what                     *)
(* get_current_conditions returned (specification SpecFormat).             *)
(***************************************************************************)
Absent == [some |-> FALSE, c |-> NoCond]

Present(c) == [some |-> TRUE, c |-> c]

\* records get_current_conditions builds, and None
SmallArgs ==
    {Absent}
    \cup {Present(BuildCond(e, Body("dict", "dict", "dict", "list", <<e>>, loc))) :
            e \in GoodFirst \cup OddLabelFirst, loc \in Locs}

RECURSIVE Flatten(_)
Flatten(cs) == IF cs = <<>> THEN <<>> ELSE cs[1] \o Flatten(Tail(cs))

Chunks == {sVahelduv, sPilvisus, sPilv, sIsus, <<" ">>}

\* weather labels: up to MaxChunks chunks, so that the two long variants
\* occur alone, repeated, together, and split over neighbouring chunks
Labels == {Flatten(cs) : cs \in SeqsUpTo(Chunks, MaxChunks)}

CondA == BuildCond(E0, Body("dict", "dict", "dict", "list", <<E0>>, Opt(FALSE, JNull)))

CondB == BuildCond(E1, Body("dict", "dict", "dict", "list", <<E1>>,
                            Opt(TRUE, JStr(sToomja))))

\* arguments of format_minimal: every temperature and label, with two
\* settings of wind, precipitation, time and location
MinimalArgs ==
    {Absent}
    \cup {Present([b EXCEPT !.temperature = t, !.weather = JStr(w)]) :
            t \in (-MaxTemp)..MaxTemp, w \in Labels, b \in {CondA, CondB}}
    \cup {Present([CondA EXCEPT !.weather = JNum(50)])}

Returned(fn, arg, r) ==
    [pc |-> IF r.exc = "none" THEN "returned" ELSE "raised", fn |-> fn, arg |-> arg,
     exc |-> r.exc, text |-> r.text]

CallFormatSimple ==
    /\ pc = "start"
    /\ fcall.pc = "idle"
    /\ \E a \in SmallArgs : fcall' = Returned("simple", a, FormatSimple(a))
    /\ UNCHANGED <<cliVars, search, tcall>>

CallFormatMinimal ==
    /\ pc = "start"
    /\ fcall.pc = "idle"
    /\ \E a \in MinimalArgs : fcall' = Returned("minimal", a, FormatMinimal(a))
    /\ UNCHANGED <<cliVars, search, tcall>>

CallFormatDetailed ==
    /\ pc = "start"
    /\ fcall.pc = "idle"
    /\ \E a \in SmallArgs : fcall' = Returned("detailed", a, FormatDetailed(a))
    /\ UNCHANGED <<cliVars, search, tcall>>

\* main, with the value get_current_conditions returned as an input
MainGiven ==
    /\ pc = "start"
    /\ fcall.pc = "idle"
    /\ \E f \in Formats, a \in SmallArgs :
        LET r == MainDispatch(f, a)
        IN  /\ fmt' = f
            /\ conditions' = a
            /\ stdout' = stdout \o r.out
            /\ IF r.exc = "none"
               THEN /\ pc' = "done"
                    /\ stderr' = stderr \o r.err
                    /\ exitCode' = r.exit
                    /\ UNCHANGED <<uncaught, raisedBy>>
               ELSE Crash(r.exc, "format_minimal")
    /\ UNCHANGED <<nreq, forecast, resp, search, fcall, tcall>>

NextFormat == CallFormatSimple \/ CallFormatMinimal \/ CallFormatDetailed \/ MainGiven

SpecFormat == Init /\ [][NextFormat]_vars

\* a formatter was called with None
CalledAbsent == fcall.pc \in {"returned", "raised"} /\ ~fcall.arg.some

Placeholder(fn) == IF fn = "minimal" THEN sNA ELSE sUnavailable

\* main ran with conditions absent
MainAbsent == pc = "done" /\ ~conditions.some

\* C6 as stated: with conditions absent each of the four formats yields a
\* fixed placeholder: the three formatter functions theirs, and the json
\* format, which only main produces, a placeholder result instead of failing.
C6_FourPlaceholders ==
    /\ CalledAbsent => (fcall.pc = "returned" /\ fcall.text = Placeholder(fcall.fn))
    /\ (MainAbsent /\ fmt = "json") => (Len(Results) = 1 /\ exitCode = 0)

\* C6 amended: format_simple and format_detailed return "Weather data
\* unavailable" and format_minimal returns "N/A" for absent conditions; the
\* json format has no placeholder: main leaves before formatting, writes no
\* result for any format and exits with status 1.
C6_ThreePlaceholders ==
    /\ CalledAbsent => (fcall.pc = "returned" /\ fcall.text = Placeholder(fcall.fn))
    /\ MainAbsent => (Results = <<>> /\ exitCode = 1 /\ stderr # <<>>)

C6_Witness ==
    /\ fcall.pc = "returned" /\ fcall.fn = "minimal" /\ ~fcall.arg.some
    /\ fcall.text = <<"N/A">>

Occurs(s, i, pat) == i + Len(pat) - 1 <= Len(s) /\ SubSeq(s, i, i + Len(pat) - 1) = pat

RECURSIVE AbbrevFrom(_, _)
\* the label from position i on with every occurrence of either long variant
\* in it abbreviated, in one pass over the original text
AbbrevFrom(s, i) ==
    IF i > Len(s) THEN <<>>
    ELSE IF Occurs(s, i, sPilvisus) THEN sPilv \o AbbrevFrom(s, i + Len(sPilvisus))
    ELSE IF Occurs(s, i, sVahelduv) THEN sVahelDot \o AbbrevFrom(s, i + Len(sVahelduv))
    ELSE <<s[i]>> \o AbbrevFrom(s, i + 1)

\* the text of integer n as the rounding of t tenths: a minus sign for a
\* negative value, also one that rounds to zero
IntText(n, t) == (IF t < 0 THEN <<"-">> ELSE <<>>) \o Digits(Abs(n))

\* C9: for present conditions with a str label, format_minimal returns an
\* integer nearest to the temperature, the degree sign, a space and the label
\* with every occurrence of either long variant abbreviated and the rest
\* unchanged; nothing else of the record enters the result.
C9_MinimalText ==
    (fcall.fn = "minimal" /\ fcall.arg.some /\ fcall.arg.c.weather.k = "str") =>
        /\ fcall.pc = "returned"
        /\ \E n \in (-(MaxTemp \div 10) - 1)..((MaxTemp \div 10) + 1) :
            /\ Abs(10 * n - fcall.arg.c.temperature) <= 5
            /\ fcall.text = IntText(n, fcall.arg.c.temperature) \o <<cDeg, " ">>
                            \o AbbrevFrom(fcall.arg.c.weather.s, 1)

C9_Witness ==
    /\ fcall.pc = "returned" /\ fcall.fn = "minimal" /\ fcall.arg.some
    /\ fcall.arg.c.temperature = 25
    /\ fcall.arg.c.weather = JStr(sVahelduvPilvisus)
    /\ fcall.arg.c.wind_speed = 17
    /\ fcall.text = <<"2", cDeg, " ">> \o sVahelDot \o <<" ">> \o sPilv

(***************************************************************************)
(* WeatherFetcher.format_forecast_simple (specification SpecTable).  The   *)
(* document is [falsy, loc, times]; the report is kept as its parts: the   *)
(* location line, the table rows and the summary (the header's clock time  *)
(* is left out).                                                           *)
(***************************************************************************)
Min(a, b) == IF a < b THEN a ELSE b

Max(a, b) == IF a > b THEN a ELSE b

\* a slice that takes one entry too many
PySliceOneMore(times, hours) == SubSeq(times, 1, Min(hours + 1, Len(times)))

\* times[:hours]
PySlice(times, hours) ==
    IF hours >= 0 THEN SubSeq(times, 1, Min(hours, Len(times)))
    ELSE SubSeq(times, 1, Max(Len(times) + hours, 0))

\* "YYYY-MM-DDTHH:MM:SS", which datetime.fromisoformat accepts
IsIso(s) ==
    /\ Len(s) = 19
    /\ s[5] = "-" /\ s[8] = "-" /\ s[11] = "T" /\ s[14] = ":" /\ s[17] = ":"
    /\ \A i \in (1..19) \ {5, 8, 11, 14, 17} : IsDigit(s[i])

\* '%H:%M' of the parsed time, or the fallback slice time_from[-8:-3]
TimeStr(s) ==
    IF IsIso(s) THEN SubSeq(s, 12, 16)
    ELSE IF Len(s) > 8 THEN SubSeq(s, Len(s) - 7, Len(s) - 3)
    ELSE s

\* d.get(name, {}).get('@attributes', {}).get(key, default) of an entry whose
\* present levels are objects
TableGet(f, default) == IF f.st = "ok" THEN f.v ELSE default

\* f"{s:>w}"
PadLeft(s, w) == [i \in 1..Max(w - Len(s), 0) |-> " "] \o s

sNAchars == <<"N", "/", "A">>

\* one table row: the five cells, right-aligned
Row(e) ==
    LET temp == TableGet(e.temperature, JStr(sNAchars))
        mps == TableGet(e.windSpeed, JStr(sNAchars))
        dir == TableGet(e.windDirection, JStr(sNAchars))
        precip == TableGet(e.precipitation, JStr(n0))
        weather == TableGet(e.phenomen, JStr(sNAchars))
    IN  [time |-> PadLeft(TimeStr(PyStr(TableGet(e.from, JStr(<<>>)))), 5),
         temp |-> PadLeft(IF temp # JStr(sNAchars) THEN PyStr(temp) \o <<cDeg, "C">>
                          ELSE sNAchars, 5),
         wind |-> PadLeft(PyStr(mps) \o <<" ", "m", "/", "s", " ">> \o PyStr(dir), 12),
         precip |-> PadLeft(PyStr(precip) \o <<" ", "m", "m">>, 6),
         weather |-> PadLeft(PyStr(weather), 20)]

\* bool(v) of a decoded scalar
TruthyValue(v) == (v.k = "str" /\ v.s # <<>>) \/ (v.k = "num" /\ v.n # 0)

RECURSIVE SeqMin(_)
SeqMin(q) == IF Len(q) = 1 THEN q[1] ELSE Min(q[1], SeqMin(Tail(q)))

RECURSIVE SeqMax(_)
SeqMax(q) == IF Len(q) = 1 THEN q[1] ELSE Max(q[1], SeqMax(Tail(q)))

RECURSIVE SeqSum(_)
SeqSum(q) == IF q = <<>> THEN 0 ELSE q[1] + SeqSum(Tail(q))

HasValue(f) == f.st = "ok" /\ TruthyValue(f.v)

RECURSIVE FloatsOf(_, _)
\* the float() of the field `name` of each entry that has a truthy value
FloatsOf(es, name) ==
    IF es = <<>> THEN <<>>
    ELSE (IF HasValue(es[1][name]) THEN <<PyFloat(es[1][name].v).val>> ELSE <<>>)
         \o FloatsOf(Tail(es), name)

\* the summary block of lines 171-201
Summary(times) ==
    IF Len(times) >= 3
    THEN LET first == SubSeq(times, 1, 3)
             temps == FloatsOf(first, "temperature")
             precips == FloatsOf(first, "precipitation")
         IN  [heading |-> TRUE, shown |-> TRUE,
              tempLine |-> IF temps = <<>> THEN <<>>
                           ELSE <<"Temperature: ">> \o Fmt1(SeqMin(temps))
                                \o <<cDeg, "C - ">> \o Fmt1(SeqMax(temps)) \o <<cDeg, "C">>,
              precipLine |-> IF precips = <<>> THEN <<>>
                             ELSE <<"Total precipitation: ">> \o Fmt1(SeqSum(precips))
                                  \o <<" mm">>,
              labels |-> {first[i].phenomen.v.s :
                            i \in {j \in 1..3 : HasValue(first[j].phenomen)}}]
    ELSE [heading |-> TRUE, shown |-> FALSE, tempLine |-> <<>>, precipLine |-> <<>>,
          labels |-> {}]

FormatForecastSimple(doc, hours) ==
    IF doc.falsy THEN [NoReport EXCEPT !.kind = "nodata"]
    ELSE LET location == IF doc.loc.has THEN PyStr(doc.loc.v)
                         ELSE <<"Unknown location">>
         IN  IF doc.times = <<>>
             THEN [NoReport EXCEPT !.kind = "empty", !.location = location]
             ELSE LET shown == PySlice(doc.times, hours)
                  IN  [kind |-> "table", location |-> location,
                       rows |-> [i \in 1..Len(shown) |-> Row(shown[i])],
                       summary |-> Summary(doc.times)]

Iso(dd, hh) == <<"2", "0", "2", "4", "-", "0", "1", "-">> \o dd \o <<"T">> \o hh
               \o <<":", "0", "0", ":", "0", "0">>

\* well-formed time entries, in no particular order of time
T0 == [E0 EXCEPT !.from = OkField(JStr(Iso(<<"0", "2">>, <<"1", "2">>)))]

T1 == [E1 EXCEPT !.from = OkField(JStr(Iso(<<"0", "1">>, <<"2", "3">>)))]

T2 == [E1 EXCEPT !.from = OkField(JStr(Iso(<<"0", "2">>, <<"1", "3">>))),
                 !.temperature = OkField(JStr(n17)),
                 !.precipitation = OkField(JStr(n42))]

TableEntries == {T0, T1, T2}

TableDocs ==
    {[falsy |-> TRUE, loc |-> Opt(FALSE, JNull), times |-> <<>>]}
    \cup {[falsy |-> FALSE, loc |-> loc, times |-> ts] :
            loc \in Locs, ts \in SeqsUpTo(TableEntries, MaxTable)}

TableCall ==
    /\ tcall.pc = "idle"
    /\ \E doc \in TableDocs, h \in (-1)..MaxHours :
        tcall' = [pc |-> "returned", doc |-> doc, hours |-> h,
                  report |-> FormatForecastSimple(doc, h)]
    /\ UNCHANGED <<cliVars, search, fcall>>

NextTable == TableCall

SpecTable == Init /\ [][NextTable]_vars

\* a report was made of a document with a non-empty time sequence
TableOf == tcall.pc = "returned" /\ ~tcall.doc.falsy /\ tcall.doc.times # <<>>

\* row i of the report is the row of entry i of the document
RowsFromFront ==
    /\ Len(tcall.report.rows) <= Len(tcall.doc.times)
    /\ \A i \in 1..Len(tcall.report.rows) : tcall.report.rows[i] = Row(tcall.doc.times[i])

FirstThreeTemps == {ExpectedNumber(tcall.doc.times[i].temperature.v) : i \in 1..3}

\* the summary gives min and max temperature, total precipitation and the
\* set of distinct labels of the first three entries
SummaryOfFirstThree ==
    /\ tcall.report.summary.shown
    /\ tcall.report.summary.tempLine =
          <<"Temperature: ">>
          \o Fmt1(CHOOSE m \in FirstThreeTemps : \A x \in FirstThreeTemps : m <= x)
          \o <<cDeg, "C - ">>
          \o Fmt1(CHOOSE m \in FirstThreeTemps : \A x \in FirstThreeTemps : m >= x)
          \o <<cDeg, "C">>
    /\ tcall.report.summary.precipLine =
          <<"Total precipitation: ">>
          \o Fmt1(ExpectedNumber(tcall.doc.times[1].precipitation.v)
                  + ExpectedNumber(tcall.doc.times[2].precipitation.v)
                  + ExpectedNumber(tcall.doc.times[3].precipitation.v))
          \o <<" mm">>
    /\ tcall.report.summary.labels = {tcall.doc.times[i].phenomen.v.s : i \in 1..3}

====
